---- MODULE Spec2Model ----
(***************************************************************************)
(* notify: a command-line sender of desktop notifications (src/main.rs).   *)
(*                                                                         *)
(* The model has two parts.  The request composer (run's argument checks,  *)
(* load_stdin_body_if_requested, load_yaml_payload, merge_request and the  *)
(* helpers it calls) is a pure function of the command line, the standard  *)
(* input and the YAML document.  The await coordinator                     *)
(* (await_notification_result) is a state machine racing two signal        *)
(* streams and an optional deadline.                                       *)
(*                                                                         *)
(* Text is a sequence of one-character strings; the NUL character is the   *)
(* element NUL.  Option<T> is a sequence of length at most one.            *)
(***************************************************************************)
EXTENDS Integers, Sequences, FiniteSets, TLC

VARIABLES
    cli,              \* the parsed command line (struct Cli)
    stdin_is_terminal,\* io::stdin().is_terminal()
    stdin_text,       \* what reading standard input as body text yields
    yaml_input,       \* what reading and parsing the YAML source yields
    pc,               \* position of run()
    stdin_body,       \* run's local stdin_body
    payload,          \* run's local payload
    request,          \* run's local request (Option<Request>)
    notification_id,  \* id returned by the Notify call
    action_sub,       \* the ActionInvoked match rule is registered
    closed_sub,       \* the NotificationClosed match rule is registered
    action_stream,    \* items queued on action_stream, oldest first
    closed_stream,    \* items queued on closed_stream, oldest first
    action_ended,     \* action_stream yields None once drained
    closed_ended,     \* closed_stream yields None once drained
    service_log,      \* every signal the service has emitted, in order
    pulled,           \* every item next() has yielded to the select loop
    stdout,           \* lines printed to standard output, in order
    error,            \* the error run() returned (Option)
    exit_status       \* process exit status (Option)

vars == <<cli, stdin_is_terminal, stdin_text, yaml_input, pc, stdin_body,
          payload, request, notification_id, action_sub, closed_sub,
          action_stream, closed_stream, action_ended, closed_ended,
          service_log, pulled, stdout, error, exit_status>>

input_vars == <<cli, stdin_is_terminal, stdin_text, yaml_input>>
await_vars == <<notification_id, action_sub, closed_sub, action_stream,
                closed_stream, action_ended, closed_ended, service_log,
                pulled>>

----------------------------------------------------------------------------
(* Option<T> *)

None == <<>>
Some(x) == <<x>>
IsSome(o) == Len(o) > 0
IsNone(o) == Len(o) = 0
OrOpt(a, b) == IF IsSome(a) THEN a ELSE b
UnwrapOr(o, d) == IF IsSome(o) THEN o[1] ELSE d

----------------------------------------------------------------------------
(* Text *)

NUL == "NUL"
Digits == <<"0", "1", "2", "3", "4", "5", "6", "7", "8", "9">>
LowerCase == <<"a", "b", "c", "d", "e", "f", "g", "h", "i", "j", "k", "l", "m",
               "n", "o", "p", "q", "r", "s", "t", "u", "v", "w", "x", "y", "z">>
UpperCase == <<"A", "B", "C", "D", "E", "F", "G", "H", "I", "J", "K", "L", "M",
               "N", "O", "P", "Q", "R", "S", "T", "U", "V", "W", "X", "Y", "Z">>

Range(s) == {s[i] : i \in DOMAIN s}
IndexOf(seq, c) == CHOOSE i \in DOMAIN seq : seq[i] = c

is_ascii_digit(c) == c \in Range(Digits)
is_ascii_alphanumeric(c) == c \in Range(Digits) \cup Range(LowerCase) \cup Range(UpperCase)
is_whitespace(c) == c \in {" ", "\t", "\n"}
to_ascii_lowercase(c) == IF c \in Range(UpperCase) THEN LowerCase[IndexOf(UpperCase, c)] ELSE c
DigitValue(c) == IndexOf(Digits, c) - 1

Lowered(s) == [i \in DOMAIN s |-> to_ascii_lowercase(s[i])]
eq_ignore_ascii_case(a, b) == Lowered(a) = Lowered(b)

RECURSIVE TrimStart(_)
TrimStart(s) == IF s # <<>> /\ is_whitespace(Head(s)) THEN TrimStart(Tail(s)) ELSE s

RECURSIVE TrimEnd(_)
TrimEnd(s) ==
    IF s # <<>> /\ is_whitespace(s[Len(s)]) THEN TrimEnd(SubSeq(s, 1, Len(s) - 1)) ELSE s

trim(s) == TrimEnd(TrimStart(s))

RECURSIVE TrimStartMatches(_, _)
TrimStartMatches(s, c) ==
    IF s # <<>> /\ Head(s) = c THEN TrimStartMatches(Tail(s), c) ELSE s

RECURSIVE TrimEndMatches(_, _)
TrimEndMatches(s, c) ==
    IF s # <<>> /\ s[Len(s)] = c THEN TrimEndMatches(SubSeq(s, 1, Len(s) - 1), c) ELSE s

trim_matches(s, c) == TrimEndMatches(TrimStartMatches(s, c), c)

\* str::split_once(':'): the text before and after the first separator
split_once(s, sep) ==
    IF sep \in Range(s)
    THEN LET i == CHOOSE k \in DOMAIN s : s[k] = sep /\ \A j \in 1..(k - 1) : s[j] # sep
         IN  Some(<<SubSeq(s, 1, i - 1), SubSeq(s, i + 1, Len(s))>>)
    ELSE None

\* [String]::join(" ")
RECURSIVE join(_, _)
join(words, sep) ==
    IF words = <<>> THEN <<>>
    ELSE IF Len(words) = 1 THEN words[1]
    ELSE words[1] \o sep \o join(Tail(words), sep)

sanitize_text(value) == SelectSeq(value, LAMBDA c : c # NUL)

RECURSIVE DecimalValue(_)
DecimalValue(ds) ==
    IF ds = <<>> THEN 0 ELSE 10 * DecimalValue(SubSeq(ds, 1, Len(ds) - 1)) + DigitValue(ds[Len(ds)])

AllDigits(s) == s # <<>> /\ \A i \in DOMAIN s : is_ascii_digit(s[i])

RECURSIVE DecimalText(_)
DecimalText(n) == IF n < 10 THEN <<Digits[n + 1]>> ELSE DecimalText(n \div 10) \o <<Digits[(n % 10) + 1]>>

----------------------------------------------------------------------------
(* Typed scalars (zvariant::OwnedValue): a tag t and a value v *)

OwnedValue(t, v) == [t |-> t, v |-> v]

\* str::parse::<i64>(): optional sign, then one or more digits
ParseI64(s) ==
    LET signed == s # <<>> /\ Head(s) \in {"+", "-"}
        digits == IF signed THEN Tail(s) ELSE s
    IN  IF AllDigits(digits)
        THEN Some(IF signed /\ Head(s) = "-" THEN 0 - DecimalValue(digits) ELSE DecimalValue(digits))
        ELSE None

\* str::parse::<f64>(): optional sign, then inf, infinity, nan, or a decimal
\* number with an optional fraction and exponent.  The value is kept as the
\* sign, the digits of the mantissa and the power of ten.
ParseF64(s) ==
    LET signed == s # <<>> /\ Head(s) \in {"+", "-"}
        neg == signed /\ Head(s) = "-"
        lower == Lowered(IF signed THEN Tail(s) ELSE s)
        parts == split_once(lower, "e")
        mant == IF IsSome(parts) THEN parts[1][1] ELSE lower
        exp == IF IsSome(parts) THEN ParseI64(parts[1][2]) ELSE Some(0)
        dot == split_once(mant, ".")
        int_part == IF IsSome(dot) THEN dot[1][1] ELSE mant
        frac_part == IF IsSome(dot) THEN dot[1][2] ELSE <<>>
        digits_ok == /\ int_part \o frac_part # <<>>
                     /\ \A i \in DOMAIN int_part : is_ascii_digit(int_part[i])
                     /\ \A i \in DOMAIN frac_part : is_ascii_digit(frac_part[i])
    IN  IF lower \in {<<"i", "n", "f">>, <<"i", "n", "f", "i", "n", "i", "t", "y">>}
        THEN Some([neg |-> neg, special |-> "inf", digits |-> 0, exp10 |-> 0])
        ELSE IF lower = <<"n", "a", "n">>
        THEN Some([neg |-> neg, special |-> "nan", digits |-> 0, exp10 |-> 0])
        ELSE IF digits_ok /\ IsSome(exp)
        THEN Some([neg |-> neg, special |-> "no",
                   digits |-> DecimalValue(int_part \o frac_part),
                   exp10 |-> exp[1] - Len(frac_part)])
        ELSE None

parse_string_value(value) ==
    IF eq_ignore_ascii_case(value, <<"t", "r", "u", "e">>) THEN OwnedValue("bool", TRUE)
    ELSE IF eq_ignore_ascii_case(value, <<"f", "a", "l", "s", "e">>) THEN OwnedValue("bool", FALSE)
    ELSE IF IsSome(ParseI64(value)) THEN OwnedValue("i64", ParseI64(value)[1])
    ELSE IF IsSome(ParseF64(value)) THEN OwnedValue("f64", ParseF64(value)[1])
    ELSE OwnedValue("str", sanitize_text(value))

\* Results: ok with a value, or an error with its kind
Ok(x) == [ok |-> TRUE, val |-> x, err |-> "none"]
Err(e) == [ok |-> FALSE, val |-> <<>>, err |-> e]

\* A YAML scalar is [y |-> kind, v |-> value]; a number also says whether it
\* is held as a signed, an unsigned beyond i64, or a float (serde_yaml::Number).
yaml_value_to_owned_value(value) ==
    IF value.y = "Bool" THEN Ok(OwnedValue("bool", value.v))
    ELSE IF value.y = "Number"
    THEN IF value.repr = "i64" THEN Ok(OwnedValue("i64", value.v))
         ELSE IF value.repr = "u64" THEN Ok(OwnedValue("u64", value.v))
         ELSE IF value.repr = "f64" THEN Ok(OwnedValue("f64", value.v))
         ELSE Err("unsupported numeric hint value")
    ELSE IF value.y = "String" THEN Ok(OwnedValue("str", sanitize_text(value.v)))
    ELSE IF value.y = "Null" THEN Ok(OwnedValue("str", <<>>))
    ELSE Err("unsupported YAML hint type")

parse_cli_hint(input) ==
    LET parts == split_once(input, ":")
    IN  IF IsNone(parts) THEN Err("invalid --hint, expected KEY:VALUE")
        ELSE LET key == trim(parts[1][1])
                 raw_value == parts[1][2]
             IN  IF key = <<>> THEN Err("invalid --hint, key cannot be empty")
                 ELSE Ok([key |-> key, value |-> parse_string_value(trim(raw_value))])

parse_cli_action(input) ==
    LET parts == split_once(input, ":")
    IN  IF IsNone(parts) THEN Err("invalid --action, expected ID:LABEL")
        ELSE LET id == sanitize_text(trim(parts[1][1]))
                 label == sanitize_text(trim(parts[1][2]))
             IN  IF id = <<>> \/ label = <<>>
                 THEN Err("invalid --action, ID and LABEL must be non-empty")
                 ELSE Ok(<<id, label>>)

\* A YamlAction is [kind |-> "Pair", value |-> text] or
\* [kind |-> "Object", id |-> text, label |-> text]
parse_yaml_action(action) ==
    IF action.kind = "Pair" THEN parse_cli_action(action.value)
    ELSE Ok(<<sanitize_text(action.id), sanitize_text(action.label)>>)

----------------------------------------------------------------------------
(* Cards *)

RECURSIVE NormalizeChars(_, _)
NormalizeChars(label, normalized) ==
    IF label = <<>> THEN normalized
    ELSE LET character == Head(label)
             next == IF is_ascii_alphanumeric(character)
                     THEN Append(normalized, to_ascii_lowercase(character))
                     ELSE IF /\ (is_whitespace(character) \/ character = "-" \/ character = "_")
                             /\ ~(normalized # <<>> /\ normalized[Len(normalized)] = "_")
                     THEN Append(normalized, "_")
                     ELSE normalized
         IN  NormalizeChars(Tail(label), next)

normalize_choice_id(label, fallback_index) ==
    LET normalized == trim_matches(NormalizeChars(label, <<>>), "_")
    IN  IF normalized = <<>>
        THEN <<"c", "h", "o", "i", "c", "e", "_">> \o DecimalText(fallback_index)
        ELSE normalized

\* serde_json's rendering of a string: NUL is written as an escape, so the
\* rendered text never holds a NUL element
JsonString(s) ==
    <<"\"">> \o [i \in DOMAIN s |-> IF s[i] = NUL THEN "\\u0000" ELSE s[i]] \o <<"\"">>

RECURSIVE JsonChoices(_)
JsonChoices(choices) ==
    IF choices = <<>> THEN <<>>
    ELSE <<"{\"id\":">> \o JsonString(choices[1][1]) \o <<",\"label\":">>
         \o JsonString(choices[1][2]) \o <<"}">>
         \o (IF Len(choices) > 1 THEN <<",">> ELSE <<>>) \o JsonChoices(Tail(choices))

\* One choice of a multiple-choice card, normalised: Ok(<<id, label>>) or the error
CardChoicePair(choice, index) ==
    LET raw_id == IF choice.kind = "Label" THEN normalize_choice_id(choice.label, index)
                  ELSE choice.id
        id == sanitize_text(trim(raw_id))
        label == sanitize_text(trim(choice.label))
    IN  IF id = <<>> \/ label = <<>>
        THEN Err("card choices must have non-empty id and label")
        ELSE Ok(<<id, label>>)

\* A YamlCard is [type |-> "multiple-choice", question, choices, allow_other] or
\* [type |-> "permission", question, allow_label (Option)]
RenderMultipleChoice(card, actions) ==
    Ok([body_json |->
            <<"{\"xnotid_card\":\"v1\",\"type\":\"multiple-choice\",\"question\":">>
            \o JsonString(sanitize_text(card.question))
            \o <<",\"choices\":[">> \o JsonChoices(actions)
            \o <<"],\"allow_other\":">>
            \o <<IF card.allow_other THEN "true" ELSE "false">> \o <<"}">>,
        actions |-> actions,
        default_summary |-> <<"Q", "u", "e", "s", "t", "i", "o", "n">>])

RenderPermission(card, allow_label) ==
    Ok([body_json |->
            <<"{\"xnotid_card\":\"v1\",\"type\":\"permission\",\"question\":">>
            \o JsonString(sanitize_text(card.question))
            \o <<",\"allow_label\":">> \o JsonString(allow_label) \o <<"}">>,
        actions |-> << <<<<"a", "l", "l", "o", "w">>, allow_label>> >>,
        default_summary |-> <<"P", "e", "r", "m", "i", "s", "s", "i", "o", "n">>])

\* The loop over the choices stops at the first empty id or label
RenderChoices(card, pairs) ==
    IF \E i \in DOMAIN pairs : ~pairs[i].ok
    THEN Err("card choices must have non-empty id and label")
    ELSE RenderMultipleChoice(card, [i \in DOMAIN pairs |-> pairs[i].val])

render_card(card) ==
    IF card.type = "multiple-choice"
    THEN IF card.choices = <<>> THEN Err("multiple-choice card requires at least one choice")
         ELSE RenderChoices(card, [i \in DOMAIN card.choices |->
                                      CardChoicePair(card.choices[i], i)])
    ELSE RenderPermission(card,
             sanitize_text(UnwrapOr(card.allow_label, <<"A", "l", "l", "o", "w">>)))

----------------------------------------------------------------------------
(* merge_request *)

KeyUrgency == <<"u", "r", "g", "e", "n", "c", "y">>
KeyCategory == <<"c", "a", "t", "e", "g", "o", "r", "y">>
KeyValue == <<"v", "a", "l", "u", "e">>
KeyXCard == <<"x", "-", "c", "a", "r", "d">>
KeyXCardVersion == <<"x", "-", "c", "a", "r", "d", "-", "v", "e", "r", "s", "i", "o", "n">>
DefaultAppName == <<"n", "o", "t", "i", "f", "y">>
StdinMarker == <<"-">>

\* YamlPayload::default()
DefaultPayload ==
    [summary |-> None, body |-> None, urgency |-> None, icon |-> None,
     app_name |-> None, category |-> None, hints |-> <<>>, actions |-> <<>>,
     progress |-> None, timeout |-> None, expire_time |-> None, id |-> None,
     replace |-> None, print_id |-> None, await_result |-> None, card |-> None]

\* HashMap::insert: the last write to a key is the one kept
Insert(hints, key, value) ==
    [k \in (DOMAIN hints) \cup {key} |-> IF k = key THEN value ELSE hints[k]]

as_hint_value(urgency) ==
    CASE urgency = "Low" -> 0
      [] urgency = "Normal" -> 1
      [] urgency = "Critical" -> 2

\* The first error of a sequence of results, if any
FirstError(results) ==
    IF \E i \in DOMAIN results : ~results[i].ok
    THEN Some(results[CHOOSE i \in DOMAIN results :
                        ~results[i].ok /\ \A j \in 1..(i - 1) : results[j].ok].err)
    ELSE None

RECURSIVE FlattenPairs(_)
FlattenPairs(pairs) ==
    IF pairs = <<>> THEN <<>> ELSE <<pairs[1][1], pairs[1][2]>> \o FlattenPairs(Tail(pairs))

\* for (key, value) in payload.hints { hints.insert(key, yaml_value_to_owned_value(value)?) }
DocumentHints(p) ==
    LET converted == [k \in DOMAIN p.hints |-> yaml_value_to_owned_value(p.hints[k])]
    IN  IF \E k \in DOMAIN converted : ~converted[k].ok
        THEN Err(converted[CHOOSE k \in DOMAIN converted : ~converted[k].ok].err)
        ELSE Ok([k \in DOMAIN converted |-> converted[k].val])

\* ComposeActions with the CLI's loop before the document's
ComposeActionsCliFirst(c, p) ==
    LET parsed == [i \in DOMAIN c.actions |-> parse_cli_action(c.actions[i])]
                  \o [i \in DOMAIN p.actions |-> parse_yaml_action(p.actions[i])]
    IN  IF IsSome(FirstError(parsed)) THEN Err(FirstError(parsed)[1])
        ELSE Ok(FlattenPairs([i \in DOMAIN parsed |-> parsed[i].val]))

\* The two loops that fill actions: the document's pairs, then the CLI's
ComposeActions(c, p) ==
    LET parsed == [i \in DOMAIN p.actions |-> parse_yaml_action(p.actions[i])]
                  \o [i \in DOMAIN c.actions |-> parse_cli_action(c.actions[i])]
    IN  IF IsSome(FirstError(parsed)) THEN Err(FirstError(parsed)[1])
        ELSE Ok(FlattenPairs([i \in DOMAIN parsed |-> parsed[i].val]))

body_from_cli(c) ==
    IF c.body = <<>> \/ (Len(c.body) = 1 /\ c.body[1] = StdinMarker) THEN None
    ELSE Some(join(c.body, <<" ">>))

ComposeSummary(c, p) == sanitize_text(UnwrapOr(OrOpt(c.summary, p.summary), <<>>))
ComposeBody(c, p, piped) ==
    sanitize_text(UnwrapOr(OrOpt(OrOpt(piped, body_from_cli(c)), p.body), <<>>))
ComposeAppName(c, p) == sanitize_text(UnwrapOr(OrOpt(c.app_name, p.app_name), DefaultAppName))

\* ComposeIcon with the document before the CLI
ComposeIconDocumentFirst(c, p) == sanitize_text(UnwrapOr(OrOpt(p.icon, c.icon), <<>>))

ComposeIcon(c, p) == sanitize_text(UnwrapOr(OrOpt(c.icon, p.icon), <<>>))

\* ResolveUrgency with the document before the CLI
ResolveUrgencyDocumentFirst(c, p) == UnwrapOr(OrOpt(p.urgency, c.urgency), "Normal")

ResolveUrgency(c, p) == UnwrapOr(OrOpt(c.urgency, p.urgency), "Normal")
ResolveCategory(c, p) == OrOpt(c.category, p.category)
ResolveProgress(c, p) == OrOpt(c.progress, p.progress)
ResolveReplacesId(c, p) == UnwrapOr(OrOpt(OrOpt(c.replace_id, p.replace), p.id), 0)
ResolveExpireTimeout(c, p) == UnwrapOr(OrOpt(OrOpt(c.expire_time, p.expire_time), p.timeout), 0 - 1)
ResolvePrintId(c, p) == c.print_id \/ UnwrapOr(p.print_id, FALSE)
ResolveAwait(c, p) == c.await_result \/ UnwrapOr(p.await_result, FALSE)


\* await_timeout_ms without the second of grace
await_timeout_ms_NoGrace(await_result, expire_timeout) ==
    IF await_result /\ expire_timeout >= 0 THEN Some(expire_timeout) ELSE None

await_timeout_ms(await_result, expire_timeout) ==
    IF await_result /\ expire_timeout >= 0 THEN Some(expire_timeout + 1000) ELSE None

ProgressInRange(value) == ~(value > 100)

\* The hint writes that follow the document's: urgency, category, value
BuiltinHints(hints, c, p) ==
    LET h1 == Insert(hints, KeyUrgency, OwnedValue("u8", as_hint_value(ResolveUrgency(c, p))))
        h2 == IF IsSome(ResolveCategory(c, p))
              THEN Insert(h1, KeyCategory, OwnedValue("str", sanitize_text(ResolveCategory(c, p)[1])))
              ELSE h1
    IN  IF IsSome(ResolveProgress(c, p))
        THEN Insert(h2, KeyValue, OwnedValue("i32", ResolveProgress(c, p)[1]))
        ELSE h2

\* CliHints that keeps what is already under the key (entry().or_insert)
RECURSIVE CliHintsKeepExisting(_, _)
CliHintsKeepExisting(hints, raw_hints) ==
    IF raw_hints = <<>> THEN Ok(hints)
    ELSE LET parsed == parse_cli_hint(Head(raw_hints))
         IN  IF ~parsed.ok THEN Err(parsed.err)
             ELSE CliHintsKeepExisting(
                      IF parsed.val.key \in DOMAIN hints THEN hints
                      ELSE Insert(hints, parsed.val.key, parsed.val.value),
                      Tail(raw_hints))

\* for raw_hint in cli.hints { hints.insert(parse_cli_hint(&raw_hint)?) }
RECURSIVE CliHints(_, _)
CliHints(hints, raw_hints) ==
    IF raw_hints = <<>> THEN Ok(hints)
    ELSE LET parsed == parse_cli_hint(Head(raw_hints))
         IN  IF ~parsed.ok THEN Err(parsed.err)
             ELSE CliHints(Insert(hints, parsed.val.key, parsed.val.value), Tail(raw_hints))

CardHints(hints) ==
    Insert(Insert(hints, KeyXCard, OwnedValue("bool", TRUE)),
           KeyXCardVersion, OwnedValue("str", <<"v", "1">>))

\* The card block once the card is rendered: what the card overwrites
AdoptCard(card_render, summary, actions, hints) ==
    IF ~card_render.ok THEN Err(card_render.err)
    ELSE Ok([summary |-> IF summary = <<>> THEN card_render.val.default_summary
                         ELSE summary,
             body |-> sanitize_text(card_render.val.body_json),
             actions |-> IF actions = <<>>
                         THEN FlattenPairs([i \in DOMAIN card_render.val.actions |->
                                 <<sanitize_text(card_render.val.actions[i][1]),
                                   sanitize_text(card_render.val.actions[i][2])>>])
                         ELSE actions,
             hints |-> CardHints(hints)])


\* ExpandCard without the check on the body
ExpandCardOverBody(card, summary, body, actions, hints) ==
    AdoptCard(render_card(card), summary, actions, hints)

\* The card block: the body check, then render_card
ExpandCard(card, summary, body, actions, hints) ==
    IF body # <<>> THEN Err("cannot combine 'card' with explicit body input")
    ELSE AdoptCard(render_card(card), summary, actions, hints)

\* Lines 427-457: the remaining scalars and the Request
BuildRequest(c, p, text) ==
    IF ~text.ok THEN Err(text.err)
    ELSE Ok([app_name |-> ComposeAppName(c, p),
             replaces_id |-> ResolveReplacesId(c, p),
             icon |-> ComposeIcon(c, p),
             summary |-> text.val.summary,
             body |-> text.val.body,
             actions |-> text.val.actions,
             hints |-> text.val.hints,
             expire_timeout |-> ResolveExpireTimeout(c, p),
             print_id |-> ResolvePrintId(c, p),
             await_result |-> ResolveAwait(c, p),
             await_timeout_ms |-> await_timeout_ms(ResolveAwait(c, p),
                                                   ResolveExpireTimeout(c, p))])

\* Lines 400-425: after the CLI hints, the card if there is one
MergeCard(c, p, cli_hints, actions, summary, body) ==
    IF ~cli_hints.ok THEN Err(cli_hints.err)
    ELSE BuildRequest(c, p,
             IF IsSome(p.card)
             THEN ExpandCard(p.card[1], summary, body, actions, cli_hints.val)
             ELSE Ok([summary |-> summary, body |-> body, actions |-> actions,
                      hints |-> cli_hints.val]))

\* Lines 341-403: the errors in the order the code meets them
MergeParts(c, p, doc_hints, actions, summary, body) ==
    IF ~doc_hints.ok THEN Err(doc_hints.err)
    ELSE IF ~actions.ok THEN Err(actions.err)
    ELSE IF IsSome(ResolveProgress(c, p)) /\ ~ProgressInRange(ResolveProgress(c, p)[1])
    THEN Err("progress must be between 0 and 100")
    ELSE MergeCard(c, p, CliHints(BuiltinHints(doc_hints.val, c, p), c.hints),
                   actions.val, summary, body)

MergeDocument(c, p, piped) ==
    MergeParts(c, p, DocumentHints(p), ComposeActions(c, p), ComposeSummary(c, p),
               ComposeBody(c, p, piped))

merge_request(c, payload_opt, piped) ==
    MergeDocument(c, UnwrapOr(payload_opt, DefaultPayload), piped)

----------------------------------------------------------------------------
(* main and run, up to the composed request *)

is_empty_invocation(c) ==
    /\ IsNone(c.summary) /\ c.body = <<>> /\ IsNone(c.file) /\ IsNone(c.urgency)
    /\ IsNone(c.icon) /\ IsNone(c.app_name) /\ IsNone(c.category) /\ c.hints = <<>>
    /\ c.actions = <<>> /\ IsNone(c.progress) /\ IsNone(c.expire_time)
    /\ IsNone(c.replace_id) /\ ~c.print_id /\ ~c.await_result

AnyhowError(msg) == [type |-> "Error", msg |-> msg]
AwaitTimeoutError(ms) == [type |-> "AwaitTimeoutError", timeout_ms |-> ms]

\* main: the exit status for what run() returned (None is Ok(()))
ExitCode(result) ==
    IF IsNone(result) THEN 0
    ELSE IF result[1].type = "AwaitTimeoutError" THEN 124
    ELSE 1

\* run() returns: main maps the result to the exit status
Return(result) ==
    /\ pc' = "exited"
    /\ error' = result
    /\ exit_status' = Some(ExitCode(result))

body_is_stdin_marker(c) == Len(c.body) = 1 /\ c.body[1] = StdinMarker

\* load_stdin_body_if_requested
load_stdin_body_if_requested(c, text) ==
    IF ~body_is_stdin_marker(c) THEN Ok(None)
    ELSE IF ~text.ok THEN Err("failed to read body from stdin")
    ELSE Ok(Some(text.val))

\* load_yaml_payload: yaml is what the source that is read holds
load_yaml_payload(c, terminal, yaml) ==
    LET reads == IsSome(c.file) \/ (~terminal /\ c.body = <<>>)
    IN  IF ~reads THEN Ok(None)
        ELSE IF yaml.status = "unreadable" THEN Err("failed to read YAML")
        ELSE IF yaml.status = "blank" THEN Ok(None)
        ELSE IF yaml.status = "malformed" THEN Err("failed to parse YAML payload")
        ELSE Ok(Some(yaml.payload))

\* run, lines 234-251: the checks made on the command line alone
CheckArgs ==
    /\ pc = "start"
    /\ IF IsSome(cli.file) /\ body_is_stdin_marker(cli)
       THEN Return(Some(AnyhowError("cannot use BODY='-' together with --file")))
            /\ stdout' = stdout
       ELSE IF is_empty_invocation(cli) /\ stdin_is_terminal
       THEN Return(None) /\ stdout' = Append(stdout, [help |-> TRUE])
       ELSE IF IsSome(cli.progress) /\ cli.progress[1] > 100
       THEN Return(Some(AnyhowError("--progress must be between 0 and 100")))
            /\ stdout' = stdout
       ELSE pc' = "load" /\ UNCHANGED <<stdout, error, exit_status>>
    /\ UNCHANGED <<input_vars, await_vars, stdin_body, payload, request>>

\* run, lines 253-254
LoadInputs ==
    /\ pc = "load"
    /\ LET body_read == load_stdin_body_if_requested(cli, stdin_text)
           yaml_read == load_yaml_payload(cli, stdin_is_terminal, yaml_input)
       IN  IF ~body_read.ok
           THEN Return(Some(AnyhowError(body_read.err))) /\ UNCHANGED <<stdin_body, payload>>
           ELSE IF ~yaml_read.ok
           THEN /\ Return(Some(AnyhowError(yaml_read.err)))
                /\ stdin_body' = body_read.val
                /\ payload' = payload
           ELSE /\ pc' = "merge"
                /\ stdin_body' = body_read.val
                /\ payload' = yaml_read.val
                /\ UNCHANGED <<error, exit_status>>
    /\ UNCHANGED <<input_vars, await_vars, request, stdout>>

\* run, line 255
MergeResult(merged) ==
    IF merged.ok
    THEN /\ request' = Some(merged.val)
         /\ pc' = "connect"
         /\ UNCHANGED <<error, exit_status>>
    ELSE /\ Return(Some(AnyhowError(merged.err)))
         /\ request' = request

Merge ==
    /\ pc = "merge"
    /\ MergeResult(merge_request(cli, payload, stdin_body))
    /\ UNCHANGED <<input_vars, await_vars, stdin_body, payload, stdout>>

----------------------------------------------------------------------------
(* run after the request is composed, and await_notification_result *)

MaxId == 2          \* notification ids are 1..MaxId
MaxReason == 2      \* close reasons are 1..MaxReason
MaxSignals == 2     \* signals the service emits during one run

NotificationIds == 1..MaxId
Reasons == 1..MaxReason
ActionKeys == {<<"o", "k">>, <<"7">>, <<" ", "t", "r", "u", "e">>}

\* What a signal's body holds; an undecodable body has another signature
ActionSignals ==
    [decodable : {TRUE}, id : NotificationIds, payload : ActionKeys]
        \cup {[decodable |-> FALSE, id |-> 0, payload |-> <<>>]}
ClosedSignals ==
    [decodable : {TRUE}, id : NotificationIds, payload : Reasons]
        \cup {[decodable |-> FALSE, id |-> 0, payload |-> 0]}

\* serde_json::from_str::<Value>(..).ok() on the texts an action key can be
\* here: surrounding whitespace is skipped; true, false, null and integers
\* are JSON documents, a bare word is not
ParseJson(text) ==
    LET t == trim(text)
        digits == IF t # <<>> /\ Head(t) = "-" THEN Tail(t) ELSE t
    IN  IF t = <<"t", "r", "u", "e">> THEN Some([json |-> "bool", v |-> TRUE])
        ELSE IF t = <<"f", "a", "l", "s", "e">> THEN Some([json |-> "bool", v |-> FALSE])
        ELSE IF t = <<"n", "u", "l", "l">> THEN Some([json |-> "null", v |-> FALSE])
        ELSE IF AllDigits(digits) /\ (Len(digits) = 1 \/ Head(digits) # "0")
        THEN Some([json |-> "number", v |-> ParseI64(t)[1]])
        ELSE None

ActionLine(id, print_id, action_key) ==
    LET parsed_action == ParseJson(action_key)
    IN  IF IsSome(parsed_action)
        THEN IF print_id
             THEN [event |-> "action", id |-> id, action_data |-> parsed_action[1]]
             ELSE [event |-> "action", action_data |-> parsed_action[1]]
        ELSE IF print_id
             THEN [event |-> "action", id |-> id, action |-> action_key]
             ELSE [event |-> "action", action |-> action_key]

ClosedLine(id, print_id, reason) ==
    IF print_id THEN [event |-> "closed", id |-> id, reason |-> reason]
    ELSE [event |-> "closed", reason |-> reason]

TimeoutLine(id, print_id, ms) ==
    IF print_id THEN [event |-> "await-timeout", id |-> id, timeout_ms |-> ms]
    ELSE [event |-> "await-timeout", timeout_ms |-> ms]


\* SignalMatches without the comparison: every signal is taken for the awaited one
SignalMatchesAny(signal_id, id) == signal_id = signal_id

SignalMatches(signal_id, id) == signal_id = id


\* ActionArm without the return after the println
ActionArmKeepsWaiting(maybe_msg, id, print_id) ==
    IF IsNone(maybe_msg)
    THEN [outcome |-> "error", msg |-> "action signal stream ended", line |-> None]
    ELSE IF ~maybe_msg[1].decodable
    THEN [outcome |-> "error", msg |-> "failed to decode ActionInvoked", line |-> None]
    ELSE IF maybe_msg[1].id = id
    THEN [outcome |-> "continue", msg |-> "",
          line |-> Some(ActionLine(id, print_id, maybe_msg[1].payload))]
    ELSE [outcome |-> "continue", msg |-> "", line |-> None]

\* One arm of the select loop, given what next() yielded: what is printed
\* and whether the loop returns, fails or goes round again
ActionArm(maybe_msg, id, print_id) ==
    IF IsNone(maybe_msg)
    THEN [outcome |-> "error", msg |-> "action signal stream ended", line |-> None]
    ELSE IF ~maybe_msg[1].decodable
    THEN [outcome |-> "error", msg |-> "failed to decode ActionInvoked", line |-> None]
    ELSE IF SignalMatches(maybe_msg[1].id, id)
    THEN [outcome |-> "return", msg |-> "",
          line |-> Some(ActionLine(id, print_id, maybe_msg[1].payload))]
    ELSE [outcome |-> "continue", msg |-> "", line |-> None]


\* ClosedArm taking the end of the stream for a quiet success
ClosedArmEndIsOk(maybe_msg, id, print_id) ==
    IF IsNone(maybe_msg)
    THEN [outcome |-> "return", msg |-> "", line |-> None]
    ELSE IF ~maybe_msg[1].decodable
    THEN [outcome |-> "error", msg |-> "failed to decode NotificationClosed", line |-> None]
    ELSE IF maybe_msg[1].id = id
    THEN [outcome |-> "return", msg |-> "",
          line |-> Some([event |-> "closed", reason |-> maybe_msg[1].payload])]
    ELSE [outcome |-> "continue", msg |-> "", line |-> None]

ClosedArm(maybe_msg, id, print_id) ==
    IF IsNone(maybe_msg)
    THEN [outcome |-> "error", msg |-> "closed signal stream ended", line |-> None]
    ELSE IF ~maybe_msg[1].decodable
    THEN [outcome |-> "error", msg |-> "failed to decode NotificationClosed", line |-> None]
    ELSE IF SignalMatches(maybe_msg[1].id, id)
    THEN [outcome |-> "return", msg |-> "",
          line |-> Some(ClosedLine(id, print_id, maybe_msg[1].payload))]
    ELSE [outcome |-> "continue", msg |-> "", line |-> None]

\* What the loop does with an arm's result
Dispatch(arm) ==
    /\ stdout' = IF IsSome(arm.line) THEN Append(stdout, arm.line[1]) ELSE stdout
    /\ IF arm.outcome = "return" THEN Return(None)
       ELSE IF arm.outcome = "error" THEN Return(Some(AnyhowError(arm.msg)))
       ELSE UNCHANGED <<pc, error, exit_status>>

\* run, lines 257-259
Connect ==
    /\ pc = "connect"
    /\ \E ok \in BOOLEAN :
         IF ok THEN pc' = "proxy" /\ UNCHANGED <<error, exit_status>>
         ELSE Return(Some(AnyhowError("failed to connect to session D-Bus")))
    /\ UNCHANGED <<input_vars, await_vars, stdin_body, payload, request, stdout>>

\* run, lines 261-263
NewProxy ==
    /\ pc = "proxy"
    /\ \E ok \in BOOLEAN :
         IF ok THEN pc' = "notify" /\ UNCHANGED <<error, exit_status>>
         ELSE Return(Some(AnyhowError("failed to create notifications proxy")))
    /\ UNCHANGED <<input_vars, await_vars, stdin_body, payload, request, stdout>>

\* run, lines 265-296: the Notify call, the id line, and the branch on await
Notify ==
    /\ pc = "notify"
    /\ \/ /\ Return(Some(AnyhowError("failed to send desktop notification")))
          /\ UNCHANGED <<notification_id, stdout>>
       \/ \E id \in NotificationIds :
            /\ notification_id' = id
            /\ stdout' = IF request[1].print_id THEN Append(stdout, [bare_id |-> id])
                         ELSE stdout
            /\ IF request[1].await_result
               THEN pc' = "subscribe_action" /\ UNCHANGED <<error, exit_status>>
               ELSE Return(None)
    /\ UNCHANGED <<input_vars, stdin_body, payload, request, action_sub, closed_sub,
                   action_stream, closed_stream, action_ended, closed_ended,
                   service_log, pulled>>

\* await_notification_result, lines 640-643
SubscribeAction ==
    /\ pc = "subscribe_action"
    /\ \E ok \in BOOLEAN :
         IF ok THEN /\ action_sub' = TRUE
                    /\ pc' = "subscribe_closed"
                    /\ UNCHANGED <<error, exit_status>>
         ELSE /\ Return(Some(AnyhowError("failed to subscribe to ActionInvoked signal")))
              /\ action_sub' = action_sub
    /\ UNCHANGED <<input_vars, stdin_body, payload, request, notification_id, closed_sub,
                   action_stream, closed_stream, action_ended, closed_ended,
                   service_log, pulled, stdout>>

\* await_notification_result, lines 644-647; the wait starts when it returns
SubscribeClosed ==
    /\ pc = "subscribe_closed"
    /\ \E ok \in BOOLEAN :
         IF ok THEN /\ closed_sub' = TRUE
                    /\ pc' = "waiting"
                    /\ UNCHANGED <<error, exit_status>>
         ELSE /\ Return(Some(AnyhowError("failed to subscribe to NotificationClosed signal")))
              /\ closed_sub' = closed_sub
    /\ UNCHANGED <<input_vars, stdin_body, payload, request, notification_id, action_sub,
                   action_stream, closed_stream, action_ended, closed_ended,
                   service_log, pulled, stdout>>

\* The select arm on action_stream.next(), lines 652-671
PullAction ==
    /\ pc = "waiting"
    /\ action_stream # <<>> \/ action_ended
    /\ LET maybe_msg == IF action_stream # <<>> THEN Some(Head(action_stream)) ELSE None
       IN  /\ action_stream' = IF action_stream # <<>> THEN Tail(action_stream) ELSE <<>>
           /\ pulled' = Append(pulled, [feed |-> "action", msg |-> maybe_msg])
           /\ Dispatch(ActionArm(maybe_msg, notification_id, request[1].print_id))
    /\ UNCHANGED <<input_vars, stdin_body, payload, request, notification_id, action_sub,
                   closed_sub, closed_stream, action_ended, closed_ended, service_log>>

\* The select arm on closed_stream.next(), lines 672-684
PullClosed ==
    /\ pc = "waiting"
    /\ closed_stream # <<>> \/ closed_ended
    /\ LET maybe_msg == IF closed_stream # <<>> THEN Some(Head(closed_stream)) ELSE None
       IN  /\ closed_stream' = IF closed_stream # <<>> THEN Tail(closed_stream) ELSE <<>>
           /\ pulled' = Append(pulled, [feed |-> "closed", msg |-> maybe_msg])
           /\ Dispatch(ClosedArm(maybe_msg, notification_id, request[1].print_id))
    /\ UNCHANGED <<input_vars, stdin_body, payload, request, notification_id, action_sub,
                   closed_sub, action_stream, action_ended, closed_ended, service_log>>

\* tokio::time::timeout elapses before the wait completes, lines 689-701
DeadlineExpires ==
    /\ pc = "waiting"
    /\ IsSome(request[1].await_timeout_ms)
    /\ LET ms == request[1].await_timeout_ms[1]
       IN  /\ stdout' = Append(stdout, TimeoutLine(notification_id, request[1].print_id, ms))
           /\ Return(Some(AwaitTimeoutError(ms)))
    /\ UNCHANGED <<input_vars, await_vars, stdin_body, payload, request>>

Running == pc \in {"subscribe_action", "subscribe_closed", "waiting"}

\* The service emits ActionInvoked: it reaches the stream only if the match
\* rule is registered by then
ServiceEmitAction ==
    /\ Running
    /\ Len(service_log) < MaxSignals
    /\ \E signal \in ActionSignals :
         LET delivered == action_sub /\ ~action_ended
         IN  /\ service_log' = Append(service_log,
                    [feed |-> "action", signal |-> signal, delivered |-> delivered])
             /\ action_stream' = IF delivered THEN Append(action_stream, signal)
                                 ELSE action_stream
    /\ UNCHANGED <<input_vars, pc, stdin_body, payload, request, notification_id,
                   action_sub, closed_sub, closed_stream, action_ended, closed_ended,
                   pulled, stdout, error, exit_status>>

\* The service emits NotificationClosed
ServiceEmitClosed ==
    /\ Running
    /\ Len(service_log) < MaxSignals
    /\ \E signal \in ClosedSignals :
         LET delivered == closed_sub /\ ~closed_ended
         IN  /\ service_log' = Append(service_log,
                    [feed |-> "closed", signal |-> signal, delivered |-> delivered])
             /\ closed_stream' = IF delivered THEN Append(closed_stream, signal)
                                 ELSE closed_stream
    /\ UNCHANGED <<input_vars, pc, stdin_body, payload, request, notification_id,
                   action_sub, closed_sub, action_stream, action_ended, closed_ended,
                   pulled, stdout, error, exit_status>>

\* The connection closes: both streams end once drained
ConnectionCloses ==
    /\ pc = "waiting"
    /\ ~action_ended
    /\ action_ended' = TRUE
    /\ closed_ended' = TRUE
    /\ UNCHANGED <<input_vars, pc, stdin_body, payload, request, notification_id,
                   action_sub, closed_sub, action_stream, closed_stream, service_log,
                   pulled, stdout, error, exit_status>>

----------------------------------------------------------------------------
(* The inputs of a run *)

MaxCliHints == 2    \* --hint entries on one command line
MaxCliBody == 2     \* body words on one command line

BaseCli ==
    [summary |-> None, body |-> <<>>, file |-> None, urgency |-> None, icon |-> None,
     app_name |-> None, category |-> None, hints |-> <<>>, actions |-> <<>>,
     progress |-> None, expire_time |-> None, replace_id |-> None,
     print_id |-> FALSE, await_result |-> FALSE]

FilePath == <<"f">>
FileCli == [BaseCli EXCEPT !.file = Some(FilePath)]

YamlOk(doc) == [status |-> "ok", payload |-> doc]
YamlBlank == [status |-> "blank", payload |-> DefaultPayload]
YamlFailures ==
    {[status |-> st, payload |-> DefaultPayload] : st \in {"unreadable", "malformed"}}

SeqsUpTo(S, n) == UNION {[1..k -> S] : k \in 0..n}
OptionOf(S) == {None} \cup {Some(x) : x \in S}

PermissionCard ==
    [type |-> "permission", question |-> <<"o", "k", "?">>, allow_label |-> None]
ChoiceCard ==
    [type |-> "multiple-choice", question |-> <<"q", NUL>>,
     choices |-> <<[kind |-> "Label", label |-> <<"Y", "e", "s", ",", " ", "p", "!">>],
                   [kind |-> "Object", id |-> <<"n">>, label |-> <<"N", "o">>]>>,
     allow_other |-> FALSE]
NoChoiceCard ==
    [type |-> "multiple-choice", question |-> <<"q">>, choices |-> <<>>,
     allow_other |-> TRUE]

Inputs(c, terminal, text, yaml) ==
    /\ cli = c
    /\ stdin_is_terminal = terminal
    /\ stdin_text = text
    /\ yaml_input = yaml

\* Summary, body and card: every source of the two texts
CliWords == {<<>>, <<"b">>, <<"c", "d">>}
CliBodies == SeqsUpTo(CliWords, MaxCliBody) \cup {<<StdinMarker>>}
TextInputs ==
    \E s \in OptionOf({<<>>, <<"s">>}), b \in CliBodies,
       f \in OptionOf({FilePath, StdinMarker}), t \in BOOLEAN, x \in {<<>>, <<"p">>},
       h \in {<<>>, << <<"k">> >>},
       ds \in OptionOf({<<"d", NUL>>}), db \in OptionOf({<<NUL>>, <<"e", NUL, "f">>}),
       dc \in OptionOf({PermissionCard, ChoiceCard}) :
      Inputs([BaseCli EXCEPT !.summary = s, !.body = b, !.file = f, !.hints = h],
             t, Ok(x),
             YamlOk([DefaultPayload EXCEPT !.summary = ds, !.body = db, !.card = dc]))

\* Hints: the document's, the three built-in ones, the CLI's, the card's
RawHints ==
    {<<"u", "r", "g", "e", "n", "c", "y", ":", "2">>,
     <<"v", "a", "l", "u", "e", ":", " ", "1", "e", "3">>,
     <<" ", "k", " ", ":", "T", "r", "u", "e">>,
     <<"k", ":", "a", ":", "b">>,
     <<"c", "a", "t", "e", "g", "o", "r", "y", ":", "1", ".", "5">>,
     <<"x", "-", "c", "a", "r", "d", ":", "f", "a", "l", "s", "e">>,
     <<"k">>}
DocumentHintMaps ==
    {<<>>,
     (<<"k">> :> [y |-> "String", v |-> <<"d", NUL>>])
        @@ (KeyUrgency :> [y |-> "Number", repr |-> "i64", v |-> 9]),
     (KeyValue :> [y |-> "Bool", v |-> TRUE]) @@ (KeyXCard :> [y |-> "Null", v |-> <<>>]),
     (<<"k">> :> [y |-> "Sequence", v |-> <<>>])}
HintInputs ==
    \E u \in OptionOf({"Low", "Critical"}), c \in OptionOf({<<"c">>}), g \in
       OptionOf({50, 101}), h \in SeqsUpTo(RawHints, MaxCliHints), du \in
       OptionOf({"Low"}), dc \in OptionOf({<<"d", NUL>>}), dg \in OptionOf({7, 255}),
       dh \in DocumentHintMaps, card \in OptionOf({PermissionCard}) :
      Inputs([FileCli EXCEPT !.urgency = u, !.category = c, !.progress = g, !.hints = h],
             TRUE, Ok(<<>>),
             YamlOk([DefaultPayload EXCEPT !.urgency = du, !.category = dc,
                                             !.progress = dg, !.hints = dh, !.card = card]))

\* Actions: the document's, the CLI's, the card's
RawActions == {<<"a", ":", "A">>, <<" ", "b", " ", ":", " ", "B", ":", "C">>, <<"a", ":">>, <<"a">>}
DocumentActions ==
    {<<>>,
     <<[kind |-> "Pair", value |-> <<"y", ":", "Y">>]>>,
     <<[kind |-> "Object", id |-> <<"z">>, label |-> <<"Z", NUL>>],
       [kind |-> "Pair", value |-> <<"y", ":", "Y">>]>>,
     <<[kind |-> "Object", id |-> <<NUL>>, label |-> <<>>]>>,
     <<[kind |-> "Pair", value |-> <<":", "Y">>]>>}
ActionInputs ==
    \E a \in SeqsUpTo(RawActions, 2), da \in DocumentActions,
       card \in OptionOf({PermissionCard, ChoiceCard, NoChoiceCard,
                          [PermissionCard EXCEPT !.allow_label = Some(<<NUL>>)]}) :
      Inputs([FileCli EXCEPT !.actions = a], TRUE, Ok(<<>>),
             YamlOk([DefaultPayload EXCEPT !.actions = da, !.card = card]))

\* The remaining scalars, each given by the CLI, the document, both or neither
ScalarInputs ==
    \E i \in OptionOf({<<"i">>}), a \in OptionOf({<<"a">>}), r \in OptionOf({5}),
       e \in OptionOf({3000}), p \in BOOLEAN,
       di \in OptionOf({<<"j", NUL>>}), da \in OptionOf({<<NUL, "b">>}),
       dr \in OptionOf({6}), did \in OptionOf({7}), de \in OptionOf({0 - 1}),
       dt \in OptionOf({500}), dp \in OptionOf({TRUE}) :
      Inputs([FileCli EXCEPT !.icon = i, !.app_name = a, !.replace_id = r,
                             !.expire_time = e, !.print_id = p],
             TRUE, Ok(<<>>),
             YamlOk([DefaultPayload EXCEPT !.icon = di, !.app_name = da, !.replace = dr,
                                           !.id = did, !.expire_time = de, !.timeout = dt,
                                           !.print_id = dp]))

\* What can go wrong while the inputs are read, and the empty invocation
LoadInputsInputs ==
    \E b \in {<<>>, <<StdinMarker>>, <<<<"b">>>>}, f \in OptionOf({FilePath}),
       t \in BOOLEAN, x \in {Ok(<<"p">>), Err("invalid UTF-8")},
       y \in YamlFailures \cup {YamlBlank} :
      Inputs([BaseCli EXCEPT !.body = b, !.file = f], t, x, y)

ComposeInputs ==
    TextInputs \/ HintInputs \/ ActionInputs \/ ScalarInputs \/ LoadInputsInputs

\* Runs that reach the notification service: await, deadline and print-id
\* requested by the CLI, by the document, or not at all
RunInputs ==
    \E e \in OptionOf({0 - 1, 2000}), p \in BOOLEAN, w \in BOOLEAN,
       g \in OptionOf({101}), dw \in OptionOf({TRUE}), dt \in OptionOf({0}) :
      Inputs([FileCli EXCEPT !.expire_time = e, !.print_id = p, !.await_result = w,
                             !.progress = g],
             TRUE, Ok(<<>>),
             YamlOk([DefaultPayload EXCEPT !.await_result = dw, !.timeout = dt]))

InitRun ==
    /\ pc = "start"
    /\ stdin_body = None
    /\ payload = None
    /\ request = None
    /\ notification_id = 0
    /\ action_sub = FALSE
    /\ closed_sub = FALSE
    /\ action_stream = <<>>
    /\ closed_stream = <<>>
    /\ action_ended = FALSE
    /\ closed_ended = FALSE
    /\ service_log = <<>>
    /\ pulled = <<>>
    /\ stdout = <<>>
    /\ error = None
    /\ exit_status = None

Init == RunInputs /\ InitRun
ComposeInit == ComposeInputs /\ InitRun

ComposeNext == CheckArgs \/ LoadInputs \/ Merge

Next ==
    \/ CheckArgs
    \/ LoadInputs
    \/ Merge
    \/ Connect
    \/ NewProxy
    \/ Notify
    \/ SubscribeAction
    \/ SubscribeClosed
    \/ PullAction
    \/ PullClosed
    \/ DeadlineExpires
    \/ ServiceEmitAction
    \/ ServiceEmitClosed
    \/ ConnectionCloses

\* The whole run, on inputs that reach the notification service
Spec == Init /\ [][Next]_vars

\* The composer alone, on every class of input
ComposeSpec == ComposeInit /\ [][ComposeNext]_vars

\* The program's own steps are taken when they can be: the runtime polls a
\* ready future and a configured timer elapses.  Nothing is assumed of the
\* service or the bus.
Fairness ==
    /\ WF_vars(CheckArgs) /\ WF_vars(LoadInputs) /\ WF_vars(Merge)
    /\ WF_vars(Connect) /\ WF_vars(NewProxy) /\ WF_vars(Notify)
    /\ WF_vars(SubscribeAction) /\ WF_vars(SubscribeClosed)
    /\ WF_vars(PullAction) /\ WF_vars(PullClosed) /\ WF_vars(DeadlineExpires)

FairSpec == Init /\ [][Next]_vars /\ Fairness

----------------------------------------------------------------------------
(* Properties of the await coordinator *)

IsTerminalLine(line) == "event" \in DOMAIN line
TerminalLines == SelectSeq(stdout, IsTerminalLine)
LastLine == stdout[Len(stdout)]

\* await_notification_result has been entered / has returned
AwaitEntered == IsSome(request) /\ request[1].await_result /\ notification_id # 0
AwaitReturned == AwaitEntered /\ pc = "exited"

TimedOut == IsSome(error) /\ error[1].type = "AwaitTimeoutError"
Failed == IsSome(error) /\ error[1].type = "Error"

AwaitFailures ==
    {"failed to subscribe to ActionInvoked signal",
     "failed to subscribe to NotificationClosed signal",
     "action signal stream ended", "closed signal stream ended",
     "failed to decode ActionInvoked", "failed to decode NotificationClosed"}

\* C1 as stated: every call of the coordinator that returns has printed
\* exactly one terminal event line, whatever the feeds did.
C1_AlwaysOneEvent == AwaitReturned => Len(TerminalLines) = 1

\* C1 amended: a call that returns Ok has printed exactly one line, an action
\* or a closed one; a call that returns the timeout error has printed exactly
\* one await-timeout line; the line is the last thing printed; and a call that
\* fails for another reason (a subscription that fails, a feed that ends, an
\* undecodable item) has printed no terminal line.
C1_OneEventUnlessFeedFails ==
    AwaitReturned =>
        /\ IsNone(error) =>
             /\ Len(TerminalLines) = 1
             /\ IsTerminalLine(LastLine)
             /\ LastLine.event \in {"action", "closed"}
        /\ TimedOut =>
             /\ Len(TerminalLines) = 1
             /\ IsTerminalLine(LastLine)
             /\ LastLine.event = "await-timeout"
        /\ Failed =>
             /\ TerminalLines = <<>>
             /\ error[1].msg \in AwaitFailures

\* A feed ended while the coordinator waited: it returned with nothing printed
C1_Witness ==
    /\ AwaitReturned
    /\ Failed
    /\ error[1].msg = "closed signal stream ended"
    /\ pulled # <<>>
    /\ TerminalLines = <<>>

\* C2: at most one terminal line is ever printed, and once it is printed
\* nothing more is pulled from either feed and nothing more is printed.
C2_AtMostOneOutcome ==
    [][/\ Len(TerminalLines') <= 1
       /\ TerminalLines # <<>> => (pulled' = pulled /\ stdout' = stdout)]_vars

\* A match was printed under a deadline with another item still queued
C2_Witness ==
    /\ AwaitReturned
    /\ IsSome(request[1].await_timeout_ms)
    /\ Len(TerminalLines) = 1
    /\ LastLine.event \in {"action", "closed"}
    /\ action_stream # <<>> \/ closed_stream # <<>>

Matching(item) ==
    IsSome(item.msg) /\ item.msg[1].decodable /\ item.msg[1].id = notification_id
NonMatching(item) ==
    IsSome(item.msg) /\ item.msg[1].decodable /\ item.msg[1].id # notification_id

\* The line that reports a pulled item: its event and its payload
Reports(line, item) ==
    IF item.feed = "closed"
    THEN line.event = "closed" /\ line.reason = item.msg[1].payload
    ELSE /\ line.event = "action"
         /\ IF "action" \in DOMAIN line
            THEN line.action = item.msg[1].payload
            ELSE line.action_data = ParseJson(item.msg[1].payload)[1]

\* C3: while only events of other notifications have been pulled, nothing
\* is printed, nothing fails and the coordinator keeps waiting (unless the
\* deadline expires); an action or closed line is printed only for the
\* first pulled event of the awaited id, which is the last one pulled, and
\* carries that event's payload.
C3_OnlyFirstMatchReported ==
    AwaitEntered =>
        /\ (\A i \in DOMAIN pulled : NonMatching(pulled[i])) =>
             /\ \A k \in DOMAIN TerminalLines : TerminalLines[k].event = "await-timeout"
             /\ ~Failed \/ pulled = <<>>
             /\ pc = "waiting" \/ pulled = <<>> \/ TimedOut
        /\ \A i \in DOMAIN pulled :
             Matching(pulled[i]) =>
                /\ i = Len(pulled)
                /\ pc = "exited" /\ IsNone(error)
                /\ Len(TerminalLines) = 1
                /\ Reports(LastLine, pulled[i])
        /\ (\E k \in DOMAIN TerminalLines : TerminalLines[k].event \in {"action", "closed"})
              => pulled # <<>> /\ Matching(pulled[Len(pulled)])

\* An event of another notification was discarded, then the awaited close
\* was reported
C3_Witness ==
    /\ AwaitReturned
    /\ Len(pulled) = 2
    /\ NonMatching(pulled[1])
    /\ Matching(pulled[2])
    /\ pulled[2].feed = "closed"
    /\ LastLine.event = "closed"
    /\ LastLine.reason = pulled[2].msg[1].payload

MatchingClosedEmitted ==
    \E i \in DOMAIN service_log :
        /\ service_log[i].feed = "closed"
        /\ service_log[i].signal.decodable
        /\ service_log[i].signal.id = notification_id
FirstMatchingClosed ==
    service_log[CHOOSE i \in DOMAIN service_log :
        /\ service_log[i].feed = "closed"
        /\ service_log[i].signal.decodable
        /\ service_log[i].signal.id = notification_id
        /\ \A j \in 1..(i - 1) :
             ~(/\ service_log[j].feed = "closed"
               /\ service_log[j].signal.decodable
               /\ service_log[j].signal.id = notification_id)].signal
MatchingActionEmitted ==
    \E i \in DOMAIN service_log :
        /\ service_log[i].feed = "action"
        /\ service_log[i].signal.decodable
        /\ service_log[i].signal.id = notification_id
ClosedReported ==
    /\ exit_status = Some(0)
    /\ stdout # <<>>
    /\ IsTerminalLine(LastLine)
    /\ LastLine.event = "closed"
    /\ LastLine.reason = FirstMatchingClosed.payload

\* C4: once the service has emitted a closed event for the id the send
\* returned, at any point after the send, the run eventually prints the closed
\* outcome with that reason and exits 0, unless a matching action event was
\* emitted, the deadline expired or the run failed.
C4_ClosedEventuallyReported ==
    (AwaitEntered /\ MatchingClosedEmitted)
        ~> (ClosedReported \/ MatchingActionEmitted \/ exit_status \in {Some(1), Some(124)})

ExpireTimeout == request[1].expire_timeout

\* C5: the deadline is expire_timeout + 1000 exactly when awaiting is
\* requested and expire_timeout >= 0; status 124 goes with one await-timeout
\* line carrying that number; without a deadline neither is ever produced;
\* every other failure exits with status 1.
C5_DeadlineAndExitStatus ==
    /\ IsSome(request) =>
         /\ (request[1].await_result /\ ExpireTimeout >= 0)
               => request[1].await_timeout_ms = Some(ExpireTimeout + 1000)
         /\ ~(request[1].await_result /\ ExpireTimeout >= 0)
               => /\ IsNone(request[1].await_timeout_ms)
                  /\ exit_status # Some(124)
                  /\ \A k \in DOMAIN TerminalLines : TerminalLines[k].event # "await-timeout"
    /\ exit_status = Some(124) =>
         /\ AwaitEntered /\ ExpireTimeout >= 0
         /\ TimedOut /\ error[1].timeout_ms = ExpireTimeout + 1000
         /\ Len(TerminalLines) = 1
         /\ LastLine.event = "await-timeout"
         /\ LastLine.timeout_ms = ExpireTimeout + 1000
    /\ (\E k \in DOMAIN TerminalLines : TerminalLines[k].event = "await-timeout")
          => exit_status = Some(124)
    /\ Failed => exit_status = Some(1)
    /\ (pc = "exited" /\ IsNone(error)) => exit_status = Some(0)
    /\ pc # "exited" => IsNone(exit_status)

\* --await with a timeout of 2000: the deadline of 3000 expired
C5_Witness ==
    /\ exit_status = Some(124)
    /\ ExpireTimeout = 2000
    /\ LastLine.event = "await-timeout"
    /\ LastLine.timeout_ms = 3000

----------------------------------------------------------------------------
(* Properties of the request composer *)

Composed == IsSome(request)
Req == request[1]
Doc == UnwrapOr(payload, DefaultPayload)
HasCard == IsSome(Doc.card)

UrgencyCode == [u \in {"Low", "Normal", "Critical"} |->
                   IF u = "Low" THEN 0 ELSE IF u = "Normal" THEN 1 ELSE 2]

\* The --hint entries as the composer reads them (all well-formed once composed)
CliHintEntry(i) == parse_cli_hint(cli.hints[i]).val
CliHintKeys == {CliHintEntry(i).key : i \in DOMAIN cli.hints}
IsLastFor(i) == \A j \in (i + 1)..Len(cli.hints) : CliHintEntry(j).key # CliHintEntry(i).key
LastCliHint(key) ==
    CliHintEntry(CHOOSE i \in DOMAIN cli.hints : CliHintEntry(i).key = key /\ IsLastFor(i)).value

\* C6 as stated: under every key a --hint entry names, the composed hints
\* hold the coerced value of the last such entry.
C6_CliHintAlwaysWins ==
    Composed => \A key \in CliHintKeys : Req.hints[key] = LastCliHint(key)

\* C6 amended: the same, except that when the document has a card the keys
\* x-card and x-card-version hold true and "v1" whatever --hint gives.
C6_CliHintWinsExceptCardMarkers ==
    Composed =>
        /\ \A key \in CliHintKeys :
             (HasCard /\ key \in {KeyXCard, KeyXCardVersion})
                \/ Req.hints[key] = LastCliHint(key)
        /\ HasCard =>
             /\ Req.hints[KeyXCard] = OwnedValue("bool", TRUE)
             /\ Req.hints[KeyXCardVersion] = OwnedValue("str", <<"v", "1">>)

\* --hint urgency:2 over the urgency flag, the document urgency and a
\* document hint named urgency
C6_Witness ==
    /\ Composed
    /\ KeyUrgency \in CliHintKeys
    /\ KeyUrgency \in DOMAIN Doc.hints
    /\ IsSome(cli.urgency) /\ IsSome(Doc.urgency)
    /\ Req.hints[KeyUrgency] = OwnedValue("i64", 2)

SuppliedProgress == {o[1] : o \in {o \in {cli.progress, Doc.progress} : IsSome(o)}}

\* C7: no request is composed when the CLI or the document gives a
\* progress above 100, also when the other source gives one in range.
C7_OutOfRangeProgressAlwaysFails ==
    Composed => \A value \in SuppliedProgress : value <= 100

HintKeyGiven(key) == key \in CliHintKeys

CardTitle ==
    IF Doc.card[1].type = "permission"
    THEN <<"P", "e", "r", "m", "i", "s", "s", "i", "o", "n">>
    ELSE <<"Q", "u", "e", "s", "t", "i", "o", "n">>
CardJson == render_card(Doc.card[1]).val.body_json
CliBodyGiven == cli.body # <<>> /\ cli.body # <<StdinMarker>>
FirstOf(a, b, c, default) ==
    IF IsSome(a) THEN a[1] ELSE IF IsSome(b) THEN b[1] ELSE IF IsSome(c) THEN c[1] ELSE default

\* What C8 says of the fields no card and no --hint can touch, and of the
\* document's turn
C8_PlainScalars ==
    /\ Req.app_name = IF IsSome(cli.app_name) THEN cli.app_name[1]
                      ELSE IF IsSome(Doc.app_name) THEN sanitize_text(Doc.app_name[1])
                      ELSE DefaultAppName
    /\ Req.icon = IF IsSome(cli.icon) THEN cli.icon[1]
                  ELSE IF IsSome(Doc.icon) THEN sanitize_text(Doc.icon[1])
                  ELSE <<>>
    /\ Req.replaces_id = FirstOf(cli.replace_id, Doc.replace, Doc.id, 0)
    /\ Req.expire_timeout = FirstOf(cli.expire_time, Doc.expire_time, Doc.timeout, 0 - 1)

\* C8 as stated: every scalar the CLI gives is the one the request carries.
C8_CliScalarAlwaysWins ==
    Composed =>
        /\ C8_PlainScalars
        /\ IsSome(cli.summary) => Req.summary = cli.summary[1]
        /\ CliBodyGiven => Req.body = join(cli.body, <<" ">>)
        /\ IsSome(cli.urgency) =>
             Req.hints[KeyUrgency] = OwnedValue("u8", UrgencyCode[cli.urgency[1]])
        /\ IsSome(cli.category) =>
             Req.hints[KeyCategory] = OwnedValue("str", cli.category[1])
        /\ IsSome(cli.progress) =>
             Req.hints[KeyValue] = OwnedValue("i32", cli.progress[1])

\* C8 amended: as stated, except that with a document card an empty CLI
\* summary gives way to the card's title and an empty CLI body to the card's
\* JSON, and that a --hint entry named urgency, category or value replaces
\* the hint derived from the scalar.  Without the CLI value the document's is
\* used (NUL stripped), replace before id and expire_time before timeout.
C8_CliScalarWinsExceptCardAndHint ==
    Composed =>
        /\ C8_PlainScalars
        /\ IsSome(cli.summary) =>
             Req.summary = IF HasCard /\ cli.summary[1] = <<>> THEN CardTitle
                           ELSE cli.summary[1]
        /\ (IsNone(cli.summary) /\ IsSome(Doc.summary) /\ ~HasCard) =>
             Req.summary = sanitize_text(Doc.summary[1])
        /\ CliBodyGiven =>
             Req.body = IF HasCard /\ join(cli.body, <<" ">>) = <<>> THEN CardJson
                        ELSE join(cli.body, <<" ">>)
        /\ (cli.body = <<>> /\ IsSome(Doc.body) /\ ~HasCard) =>
             Req.body = sanitize_text(Doc.body[1])
        /\ ~HintKeyGiven(KeyUrgency) =>
             Req.hints[KeyUrgency] =
                OwnedValue("u8", UrgencyCode[FirstOf(cli.urgency, Doc.urgency, None, "Normal")])
        /\ (~HintKeyGiven(KeyCategory) /\ IsSome(cli.category)) =>
             Req.hints[KeyCategory] = OwnedValue("str", cli.category[1])
        /\ (~HintKeyGiven(KeyCategory) /\ IsNone(cli.category) /\ IsSome(Doc.category)) =>
             Req.hints[KeyCategory] = OwnedValue("str", sanitize_text(Doc.category[1]))
        /\ (~HintKeyGiven(KeyValue) /\ IsSome(cli.progress)) =>
             Req.hints[KeyValue] = OwnedValue("i32", cli.progress[1])
        /\ (~HintKeyGiven(KeyValue) /\ IsNone(cli.progress) /\ IsSome(Doc.progress)) =>
             Req.hints[KeyValue] = OwnedValue("i32", Doc.progress[1])

\* The CLI and the document both give icon, app name, replace id and expire
\* timeout, and the request carries the CLI's
C8_Witness ==
    /\ Composed
    /\ IsSome(cli.icon) /\ IsSome(Doc.icon) /\ Req.icon = cli.icon[1]
    /\ IsSome(cli.app_name) /\ IsSome(Doc.app_name) /\ Req.app_name = cli.app_name[1]
    /\ IsSome(cli.replace_id) /\ IsSome(Doc.replace) /\ IsSome(Doc.id)
    /\ Req.replaces_id = cli.replace_id[1]
    /\ IsSome(cli.expire_time) /\ IsSome(Doc.expire_time) /\ IsSome(Doc.timeout)
    /\ Req.expire_timeout = cli.expire_time[1]

\* The explicit body by precedence, as given and with NUL stripped
ExplicitBodyGiven ==
    UnwrapOr(OrOpt(OrOpt(stdin_body, IF CliBodyGiven THEN Some(join(cli.body, <<" ">>))
                                     ELSE None),
                   Doc.body), <<>>)
ExplicitBody == sanitize_text(ExplicitBodyGiven)

MutualExclusion == "cannot combine 'card' with explicit body input"
EarlierMergeErrors ==
    {"unsupported YAML hint type", "unsupported numeric hint value",
     "invalid --action, expected ID:LABEL",
     "invalid --action, ID and LABEL must be non-empty",
     "progress must be between 0 and 100",
     "invalid --hint, expected KEY:VALUE", "invalid --hint, key cannot be empty"}
MergeFailed ==
    /\ pc = "exited" /\ Failed
    /\ error[1].msg \notin {"cannot use BODY='-' together with --file",
                            "--progress must be between 0 and 100",
                            "failed to read body from stdin", "failed to read YAML",
                            "failed to parse YAML payload"}

\* C9 as stated: a card with a non-empty explicit body always fails with
\* the mutual-exclusion error, and a composed request with a card has the
\* card's JSON as its body.
C9_CardAndBodyAlwaysExclusive ==
    /\ (HasCard /\ ExplicitBodyGiven # <<>>) =>
          /\ ~Composed
          /\ MergeFailed => error[1].msg = MutualExclusion
    /\ (Composed /\ HasCard) => Req.body = CardJson

\* C9 amended: a card with an explicit body that is non-empty once NUL is
\* stripped never composes: it fails with the mutual-exclusion error unless
\* an earlier check (document hints, actions, progress, CLI hints) fails
\* first; a composed request with a card has the card's JSON as its body.
C9_CardAndBodyExclusiveAfterSanitize ==
    /\ (HasCard /\ ExplicitBody # <<>>) =>
          /\ ~Composed
          /\ MergeFailed => error[1].msg \in {MutualExclusion} \cup EarlierMergeErrors
    /\ (Composed /\ HasCard) => Req.body = CardJson /\ ExplicitBody = <<>>

\* A card and a document body: the mutual-exclusion error
C9_Witness ==
    /\ HasCard
    /\ ExplicitBody # <<>>
    /\ MergeFailed
    /\ error[1].msg = MutualExclusion

\* C10 as stated: the urgency hint is always the code of the resolved urgency.
C10_UrgencyHintAlwaysCode ==
    Composed =>
        /\ Req.hints[KeyUrgency].t = "u8"
        /\ Req.hints[KeyUrgency].v \in {0, 1, 2}
        /\ Req.hints[KeyUrgency].v =
              UrgencyCode[FirstOf(cli.urgency, Doc.urgency, None, "Normal")]

\* C10 amended: so it is unless a --hint entry is named urgency; then the
\* hint holds the coerced value of the last such entry.
C10_UrgencyHintCodeUnlessCliHint ==
    Composed =>
        IF HintKeyGiven(KeyUrgency)
        THEN Req.hints[KeyUrgency] = LastCliHint(KeyUrgency)
        ELSE /\ Req.hints[KeyUrgency].t = "u8"
             /\ Req.hints[KeyUrgency].v \in {0, 1, 2}
             /\ Req.hints[KeyUrgency].v =
                   UrgencyCode[FirstOf(cli.urgency, Doc.urgency, None, "Normal")]

\* The document's urgency is used, over a document hint named urgency
C10_Witness ==
    /\ Composed
    /\ ~HintKeyGiven(KeyUrgency)
    /\ IsNone(cli.urgency) /\ Doc.urgency = Some("Low")
    /\ KeyUrgency \in DOMAIN Doc.hints
    /\ Req.hints[KeyUrgency] = OwnedValue("u8", 0)

\* The pair the request holds at the k-th place of its actions
ActionPair(k) == <<Req.actions[2 * k - 1], Req.actions[2 * k]>>
CardPairs == render_card(Doc.card[1]).val.actions

\* C11: the actions of a composed request have even length and alternate
\* id, label: the document's pairs in document order, then the CLI's in CLI
\* order; the card's pairs are there only when neither supplied an action.
C11_ActionsAlternateDocumentThenCli ==
    Composed =>
        /\ Len(Req.actions) % 2 = 0
        /\ IF Len(Doc.actions) + Len(cli.actions) > 0
           THEN /\ Len(Req.actions) = 2 * (Len(Doc.actions) + Len(cli.actions))
                /\ \A i \in DOMAIN Doc.actions :
                     ActionPair(i) = parse_yaml_action(Doc.actions[i]).val
                /\ \A j \in DOMAIN cli.actions :
                     ActionPair(Len(Doc.actions) + j) = parse_cli_action(cli.actions[j]).val
           ELSE IF HasCard
           THEN /\ Len(Req.actions) = 2 * Len(CardPairs)
                /\ \A k \in DOMAIN CardPairs :
                     ActionPair(k) = <<sanitize_text(CardPairs[k][1]),
                                       sanitize_text(CardPairs[k][2])>>
           ELSE Req.actions = <<>>

\* Two document actions, a CLI action and a card: six texts, the card's
\* pairs left out
C11_Witness ==
    /\ Composed
    /\ HasCard
    /\ Len(Doc.actions) = 2
    /\ Len(cli.actions) = 1
    /\ Len(Req.actions) = 6
    /\ ActionPair(3) = <<<<"a">>, <<"A">>>>

\* C12: every id and every label in the actions of a composed request is a
\* non-empty string, whichever path produced the pair.
C12_ActionTextsNonEmpty ==
    Composed => \A i \in DOMAIN Req.actions : Req.actions[i] # <<>>

====
